---- MODULE Spec2Model ----
(***************************************************************************)
(* Model of the Sylo E2EE pallet (crml/sylo/src/e2ee/mod.rs): the store of *)
(* one-time pre-key bundles per (account, device), its three dispatchable  *)
(* calls register_device, replenish_pkbs and withdraw_pkbs, and the parts  *)
(* of the device, groups and response pallets those calls touch.           *)
(***************************************************************************)
EXTENDS Integers, Sequences, FiniteSets, TLC

\* Program constants (mod.rs:26-27).
MAX_PKBS == 50
WITHDRAW_LIST_MAX_LEN == 50

\* Bounds of the model.
MaxCalls == 3
MaxBatch == 3
MaxWanted == 2

\* The identities the calls are made with.
AccountIds == {1, 2}
DeviceIds == {0, 1}
GroupIds == {"G1", "G2"}
RequestIds == {"R", "R2"}
Keys == AccountIds \X DeviceIds

VARIABLES
    PreKeyBundles,  \* (account, device) -> sequence of stored bundles
    devices,        \* account -> sequence of registered device ids
    memberships,    \* account -> sequence of group ids
    memberDevices,  \* group -> set of (account, device)
    responses,      \* (requester, request id) -> response
    last,           \* the latest dispatched call and its result
    calls,          \* number of calls dispatched so far
    nextId,         \* the tag the next stored bundle instance gets
    delivered,      \* bundle instance tag -> times handed out by a withdrawal
    accepted,       \* (account, device) -> bundles accepted by register/replenish
    handed          \* (account, device) -> entries of withdrawal results so far

vars == <<PreKeyBundles, devices, memberships, memberDevices, responses, last, calls, nextId, delivered,
          accepted, handed>>

----------------------------------------------------------------------------
\* Origins: a signed account or an origin ensure_signed rejects.
Signed(a) == [signed |-> TRUE, who |-> a]
Unsigned == [signed |-> FALSE, who |-> 0]
Origins == {Signed(a) : a \in AccountIds} \cup {Unsigned}

\* Variant of ensure_signed: an origin that is not signed counts as account 1.
ensure_signed_default(origin) == [ok |-> TRUE, who |-> IF origin.signed THEN origin.who ELSE 1]

\* ensure_signed(origin): the account of a signed origin.
ensure_signed(origin) == IF origin.signed THEN [ok |-> TRUE, who |-> origin.who] ELSE [ok |-> FALSE, who |-> 0]

\* A stored bundle: the bytes given by the caller and the tag of the
\* insertion that put this instance into the store.
Stamp(pkbs, from) == [i \in 1..Len(pkbs) |-> [val |-> pkbs[i], id |-> from + i - 1]]
Vals(stored) == [i \in 1..Len(stored) |-> stored[i].val]

\* response::Response
NoResponse == [tag |-> "None", pkbs |-> <<>>]
ResponsePreKeyBundles(acquired) == [tag |-> "PreKeyBundles", pkbs |-> acquired]

----------------------------------------------------------------------------
\* Variants of check_total_pkbs: the existing count left out, a strict
\* comparison, and a bound one too large.
check_new_pkbs_only(sender_id, device_id, pkbs_count) ==
    pkbs_count <= MAX_PKBS
check_total_pkbs_strict(sender_id, device_id, pkbs_count) ==
    Len(PreKeyBundles[<<sender_id, device_id>>]) + pkbs_count < MAX_PKBS
check_total_pkbs_plus_one(sender_id, device_id, pkbs_count) ==
    Len(PreKeyBundles[<<sender_id, device_id>>]) + pkbs_count <= MAX_PKBS + 1

\* check_total_pkbs: the existing count plus the new count fits MAX_PKBS.
check_total_pkbs(sender_id, device_id, pkbs_count) ==
    Len(PreKeyBundles[<<sender_id, device_id>>]) + pkbs_count <= MAX_PKBS

\* Variant of extend: the new bundles replace the stored ones.
extend_replace(current_pkbs, pkbs) == pkbs

\* current_pkbs.extend(pkbs)
extend(current_pkbs, pkbs) == current_pkbs \o pkbs

\* device::append_device: a device id already registered is an error.
append_device_ok(devs, user_id, device_id) ==
    \A i \in 1..Len(devs[user_id]) : devs[user_id][i] # device_id

append_device(devs, user_id, device_id) ==
    [devs EXCEPT ![user_id] = Append(@, device_id)]

\* groups::append_member_device
append_member_device(md, group_id, account_id, device_id) ==
    [md EXCEPT ![group_id] = @ \cup {<<account_id, device_id>>}]

\* Variant of the fan-out: only the first group gets the device.
fan_out_first(md, user_groups, sender, device_id) ==
    IF user_groups = <<>> THEN md
    ELSE append_member_device(md, Head(user_groups), sender, device_id)

\* for group_id in user_groups { append_member_device(..) }
RECURSIVE fan_out(_, _, _, _)
fan_out(md, user_groups, sender, device_id) ==
    IF user_groups = <<>> THEN md
    ELSE fan_out(append_member_device(md, Head(user_groups), sender, device_id),
                 Tail(user_groups), sender, device_id)

\* Variants of pop: the last element read but left in the list, and the
\* first element taken instead of the last.
pop_peek(pkbs) == [rest |-> pkbs, item |-> pkbs[Len(pkbs)]]
pop_front(pkbs) == [rest |-> Tail(pkbs), item |-> Head(pkbs)]

\* Variant of pop: the whole list is taken away with the last element.
pop_clear(pkbs) == [rest |-> <<>>, item |-> pkbs[Len(pkbs)]]

\* Variant of pop: two elements leave the list and the last one is returned.
pop_two(pkbs) == [rest |-> SubSeq(pkbs, 1, Len(pkbs) - 2), item |-> pkbs[Len(pkbs)]]

\* pkbs.pop(): the last element and the list without it.
pop(pkbs) == [rest |-> SubSeq(pkbs, 1, Len(pkbs) - 1), item |-> pkbs[Len(pkbs)]]

\* Variants of the withdrawal loop: it stops at the first key without a
\* bundle; it does not write the shortened list back; it keeps only the
\* entry acquired last.
RECURSIVE acquire_stop(_, _, _)
acquire_stop(wanted_pkbs, store, acquired) ==
    IF wanted_pkbs = <<>> THEN [store |-> store, acquired |-> acquired]
    ELSE LET wanted_pkb == Head(wanted_pkbs)
             pkbs == store[wanted_pkb]
         IN  IF pkbs = <<>>
             THEN [store |-> store, acquired |-> acquired]
             ELSE LET p == pop(pkbs)
                  IN  acquire_stop(Tail(wanted_pkbs),
                                   [store EXCEPT ![wanted_pkb] = p.rest],
                                   Append(acquired, <<wanted_pkb[1], wanted_pkb[2], p.item>>))

RECURSIVE acquire_no_insert(_, _, _)
acquire_no_insert(wanted_pkbs, store, acquired) ==
    IF wanted_pkbs = <<>> THEN [store |-> store, acquired |-> acquired]
    ELSE LET wanted_pkb == Head(wanted_pkbs)
             pkbs == store[wanted_pkb]
         IN  IF pkbs = <<>>
             THEN acquire_no_insert(Tail(wanted_pkbs), store, acquired)
             ELSE LET p == pop(pkbs)
                  IN  acquire_no_insert(Tail(wanted_pkbs), store,
                                        Append(acquired, <<wanted_pkb[1], wanted_pkb[2], p.item>>))

RECURSIVE acquire_keep_last(_, _, _)
acquire_keep_last(wanted_pkbs, store, acquired) ==
    IF wanted_pkbs = <<>> THEN [store |-> store, acquired |-> acquired]
    ELSE LET wanted_pkb == Head(wanted_pkbs)
             pkbs == store[wanted_pkb]
         IN  IF pkbs = <<>>
             THEN acquire_keep_last(Tail(wanted_pkbs), store, acquired)
             ELSE LET p == pop(pkbs)
                  IN  acquire_keep_last(Tail(wanted_pkbs),
                                        [store EXCEPT ![wanted_pkb] = p.rest],
                                        <<<<wanted_pkb[1], wanted_pkb[2], p.item>>>>)

\* Variant of the withdrawal loop: each entry goes to the front of the result.
RECURSIVE acquire_prepend(_, _, _)
acquire_prepend(wanted_pkbs, store, acquired) ==
    IF wanted_pkbs = <<>> THEN [store |-> store, acquired |-> acquired]
    ELSE LET wanted_pkb == Head(wanted_pkbs)
             pkbs == store[wanted_pkb]
         IN  IF pkbs = <<>>
             THEN acquire_prepend(Tail(wanted_pkbs), store, acquired)
             ELSE LET p == pop(pkbs)
                  IN  acquire_prepend(Tail(wanted_pkbs),
                                      [store EXCEPT ![wanted_pkb] = p.rest],
                                      <<<<wanted_pkb[1], wanted_pkb[2], p.item>>>> \o acquired)

\* wanted_pkbs.into_iter().filter_map(..).collect(), threading the storage.
RECURSIVE acquire(_, _, _)
acquire(wanted_pkbs, store, acquired) ==
    IF wanted_pkbs = <<>> THEN [store |-> store, acquired |-> acquired]
    ELSE LET wanted_pkb == Head(wanted_pkbs)
             pkbs == store[wanted_pkb]
         IN  IF pkbs = <<>>
             THEN acquire(Tail(wanted_pkbs), store, acquired)
             ELSE LET p == pop(pkbs)
                  IN  acquire(Tail(wanted_pkbs),
                              [store EXCEPT ![wanted_pkb] = p.rest],
                              Append(acquired, <<wanted_pkb[1], wanted_pkb[2], p.item>>))

\* Variant of the length check: a strict comparison.
withdraw_list_strict(wanted_pkbs) == Len(wanted_pkbs) < WITHDRAW_LIST_MAX_LEN

\* ensure!(wanted_pkbs.len() <= WITHDRAW_LIST_MAX_LEN, ..)
withdraw_list_ok(wanted_pkbs) == Len(wanted_pkbs) <= WITHDRAW_LIST_MAX_LEN

\* response::set_response
set_response(resp, sender, request_id, response) ==
    [resp EXCEPT ![<<sender, request_id>>] = response]

\* Ghost: count the instances a withdrawal handed out.
RECURSIVE count_delivered(_, _)
count_delivered(d, acquired) ==
    IF acquired = <<>> THEN d
    ELSE LET id == Head(acquired)[3].id
         IN  count_delivered(IF id \in DOMAIN d THEN [d EXCEPT ![id] = @ + 1] ELSE d @@ (id :> 1),
                             Tail(acquired))

\* Ghost: count, for each key, the entries of a withdrawal result.
count_handed(h, acquired) ==
    [k \in Keys |-> h[k] + Cardinality({i \in 1..Len(acquired) :
                                            <<acquired[i][1], acquired[i][2]>> = k})]

----------------------------------------------------------------------------
Init ==
    /\ PreKeyBundles = [k \in Keys |-> <<>>]
    /\ devices = [a \in AccountIds |-> <<>>]
    /\ memberships = [a \in AccountIds |-> <<>>]
    /\ memberDevices = [g \in GroupIds |-> {}]
    /\ responses = [k \in AccountIds \X RequestIds |-> NoResponse]
    /\ last = [op |-> "none", who |-> 0, device_id |-> 0, request_id |-> "", count |-> 0, result |-> "Ok"]
    /\ calls = 0
    /\ nextId = 1
    /\ delivered = <<>>
    /\ accepted = [k \in Keys |-> 0]
    /\ handed = [k \in Keys |-> 0]

\* The record of a dispatched call: the call, its scalar arguments, the number
\* of elements of its list argument and the DispatchResult.
Call(op, who, device_id, request_id, count, result) ==
    [op |-> op, who |-> who, device_id |-> device_id, request_id |-> request_id,
     count |-> count, result |-> result]

\* Variant of register_device: the capacity check comes after the device is
\* appended and fanned out to the groups.
register_device_check_late(origin, device_id, pkbs) ==
    LET s == ensure_signed(origin)
        sender == s.who
        Done(result) == last' = Call("register_device", sender, device_id, "", Len(pkbs), result)
    IN  /\ calls' = calls + 1
        /\ IF ~s.ok
           THEN /\ Done("BadOrigin")
                /\ UNCHANGED <<PreKeyBundles, devices, memberships, memberDevices, responses, nextId, delivered, accepted, handed>>
           ELSE IF ~append_device_ok(devices, sender, device_id)
           THEN /\ Done("DeviceIdExists")
                /\ UNCHANGED <<PreKeyBundles, devices, memberships, memberDevices, responses, nextId, delivered, accepted, handed>>
           ELSE /\ devices' = append_device(devices, sender, device_id)
                /\ memberDevices' = fan_out(memberDevices, memberships[sender], sender, device_id)
                /\ IF ~check_total_pkbs(sender, device_id, Len(pkbs))
                   THEN /\ Done("MaxPreKeyBundle")
                        /\ UNCHANGED <<PreKeyBundles, nextId, accepted>>
                   ELSE /\ PreKeyBundles' = [PreKeyBundles EXCEPT ![<<sender, device_id>>] = extend(@, Stamp(pkbs, nextId))]
                        /\ nextId' = nextId + Len(pkbs)
                        /\ accepted' = [accepted EXCEPT ![<<sender, device_id>>] = @ + Len(pkbs)]
                        /\ Done("Ok")
                /\ UNCHANGED <<memberships, responses, delivered, handed>>

register_device(origin, device_id, pkbs) ==
    LET s == ensure_signed(origin)
        sender == s.who
        Done(result) == last' = Call("register_device", sender, device_id, "", Len(pkbs), result)
    IN  /\ calls' = calls + 1
        /\ IF ~s.ok
           THEN /\ Done("BadOrigin")
                /\ UNCHANGED <<PreKeyBundles, devices, memberships, memberDevices, responses, nextId, delivered, accepted, handed>>
           ELSE IF ~check_total_pkbs(sender, device_id, Len(pkbs))
           THEN /\ Done("MaxPreKeyBundle")
                /\ UNCHANGED <<PreKeyBundles, devices, memberships, memberDevices, responses, nextId, delivered, accepted, handed>>
           ELSE IF ~append_device_ok(devices, sender, device_id)
           THEN /\ Done("DeviceIdExists")
                /\ UNCHANGED <<PreKeyBundles, devices, memberships, memberDevices, responses, nextId, delivered, accepted, handed>>
           ELSE /\ devices' = append_device(devices, sender, device_id)
                /\ memberDevices' = fan_out(memberDevices, memberships[sender], sender, device_id)
                /\ PreKeyBundles' = [PreKeyBundles EXCEPT ![<<sender, device_id>>] = extend(@, Stamp(pkbs, nextId))]
                /\ nextId' = nextId + Len(pkbs)
                /\ accepted' = [accepted EXCEPT ![<<sender, device_id>>] = @ + Len(pkbs)]
                /\ Done("Ok")
                /\ UNCHANGED <<memberships, responses, delivered, handed>>

\* Variant of replenish_pkbs: the bundles go to every device id of the
\* sender.
replenish_pkbs_all_devices(origin, device_id, pkbs) ==
    LET s == ensure_signed(origin)
        sender == s.who
        Done(result) == last' = Call("replenish_pkbs", sender, device_id, "", Len(pkbs), result)
    IN  /\ calls' = calls + 1
        /\ IF ~s.ok
           THEN /\ Done("BadOrigin")
                /\ UNCHANGED <<PreKeyBundles, devices, memberships, memberDevices, responses, nextId, delivered, accepted, handed>>
           ELSE IF ~check_total_pkbs(sender, device_id, Len(pkbs))
           THEN /\ Done("MaxPreKeyBundle")
                /\ UNCHANGED <<PreKeyBundles, devices, memberships, memberDevices, responses, nextId, delivered, accepted, handed>>
           ELSE /\ PreKeyBundles' = [k \in Keys |->
                                        IF k[1] = sender
                                        THEN extend(PreKeyBundles[k], Stamp(pkbs, nextId))
                                        ELSE PreKeyBundles[k]]
                /\ nextId' = nextId + Len(pkbs)
                /\ accepted' = [accepted EXCEPT ![<<sender, device_id>>] = @ + Len(pkbs)]
                /\ Done("Ok")
                /\ UNCHANGED <<devices, memberships, memberDevices, responses, delivered, handed>>

\* Variant of replenish_pkbs: the device must be registered for the sender.
replenish_pkbs_registered_only(origin, device_id, pkbs) ==
    LET s == ensure_signed(origin)
        sender == s.who
        Done(result) == last' = Call("replenish_pkbs", sender, device_id, "", Len(pkbs), result)
    IN  /\ calls' = calls + 1
        /\ IF ~s.ok
           THEN /\ Done("BadOrigin")
                /\ UNCHANGED <<PreKeyBundles, devices, memberships, memberDevices, responses, nextId, delivered, accepted, handed>>
           ELSE IF append_device_ok(devices, sender, device_id)
           THEN /\ Done("DeviceIdNotFound")
                /\ UNCHANGED <<PreKeyBundles, devices, memberships, memberDevices, responses, nextId, delivered, accepted, handed>>
           ELSE IF ~check_total_pkbs(sender, device_id, Len(pkbs))
           THEN /\ Done("MaxPreKeyBundle")
                /\ UNCHANGED <<PreKeyBundles, devices, memberships, memberDevices, responses, nextId, delivered, accepted, handed>>
           ELSE /\ PreKeyBundles' = [PreKeyBundles EXCEPT ![<<sender, device_id>>] = extend(@, Stamp(pkbs, nextId))]
                /\ nextId' = nextId + Len(pkbs)
                /\ accepted' = [accepted EXCEPT ![<<sender, device_id>>] = @ + Len(pkbs)]
                /\ Done("Ok")
                /\ UNCHANGED <<devices, memberships, memberDevices, responses, delivered, handed>>

replenish_pkbs(origin, device_id, pkbs) ==
    LET s == ensure_signed(origin)
        sender == s.who
        Done(result) == last' = Call("replenish_pkbs", sender, device_id, "", Len(pkbs), result)
    IN  /\ calls' = calls + 1
        /\ IF ~s.ok
           THEN /\ Done("BadOrigin")
                /\ UNCHANGED <<PreKeyBundles, devices, memberships, memberDevices, responses, nextId, delivered, accepted, handed>>
           ELSE IF ~check_total_pkbs(sender, device_id, Len(pkbs))
           THEN /\ Done("MaxPreKeyBundle")
                /\ UNCHANGED <<PreKeyBundles, devices, memberships, memberDevices, responses, nextId, delivered, accepted, handed>>
           ELSE /\ PreKeyBundles' = [PreKeyBundles EXCEPT ![<<sender, device_id>>] = extend(@, Stamp(pkbs, nextId))]
                /\ nextId' = nextId + Len(pkbs)
                /\ accepted' = [accepted EXCEPT ![<<sender, device_id>>] = @ + Len(pkbs)]
                /\ Done("Ok")
                /\ UNCHANGED <<devices, memberships, memberDevices, responses, delivered, handed>>

withdraw_pkbs(origin, request_id, wanted_pkbs) ==
    LET s == ensure_signed(origin)
        sender == s.who
        Done(result) == last' = Call("withdraw_pkbs", sender, 0, request_id, Len(wanted_pkbs), result)
    IN  /\ calls' = calls + 1
        /\ IF ~s.ok
           THEN /\ Done("BadOrigin")
                /\ UNCHANGED <<PreKeyBundles, devices, memberships, memberDevices, responses, nextId, delivered, accepted, handed>>
           ELSE IF ~withdraw_list_ok(wanted_pkbs)
           THEN /\ Done("VeryLargeWithdrawList")
                /\ UNCHANGED <<PreKeyBundles, devices, memberships, memberDevices, responses, nextId, delivered, accepted, handed>>
           ELSE LET r == acquire(wanted_pkbs, PreKeyBundles, <<>>)
                IN  /\ PreKeyBundles' = r.store
                    /\ responses' = set_response(responses, sender, request_id, ResponsePreKeyBundles(r.acquired))
                    /\ delivered' = count_delivered(delivered, r.acquired)
                    /\ handed' = count_handed(handed, r.acquired)
                    /\ Done("Ok")
                    /\ UNCHANGED <<devices, memberships, memberDevices, nextId, accepted>>

\* The groups pallet: an account becomes a member of a group.
join_group(account_id, group_id) ==
    /\ \A i \in 1..Len(memberships[account_id]) : memberships[account_id][i] # group_id
    /\ memberships' = [memberships EXCEPT ![account_id] = Append(@, group_id)]
    /\ calls' = calls + 1
    /\ last' = Call("join_group", account_id, 0, "", 0, "Ok")
    /\ UNCHANGED <<PreKeyBundles, devices, memberDevices, responses, nextId, delivered, accepted, handed>>

----------------------------------------------------------------------------
\* Inputs of the calls: a batch of n bundles with the bytes 1..n, and the
\* lists of n wanted keys that alternate between two keys.
Batch(n) == [i \in 1..n |-> i]
Alt(k1, k2, n) == [i \in 1..n |-> IF i % 2 = 1 THEN k1 ELSE k2]

Senders == {Signed(a) : a \in AccountIds}
Requesters == {Signed(2)}
WantedKeys == {<<1, 0>>, <<2, 0>>}

\* A call from an origin that is not signed, one for each dispatchable.
Unauthenticated ==
    /\ calls < MaxCalls
    /\ \/ register_device(Unsigned, 0, Batch(1))
       \/ replenish_pkbs(Unsigned, 0, Batch(1))
       \/ withdraw_pkbs(Unsigned, "R", <<<<1, 0>>>>)

\* Storing and withdrawing small batches.
Batches == {Batch(n) : n \in 1..MaxBatch}
WantedLists == {Alt(k1, k2, n) : k1 \in WantedKeys, k2 \in WantedKeys, n \in 0..MaxWanted}

Register == \E o \in Senders, d \in DeviceIds, b \in {Batch(0), Batch(1)} :
    calls < MaxCalls /\ register_device(o, d, b)
Replenish == \E o \in Senders, d \in DeviceIds, b \in Batches :
    calls < MaxCalls /\ replenish_pkbs(o, d, b)
Withdraw == \E o \in Requesters, r \in RequestIds, w \in WantedLists :
    calls < MaxCalls /\ withdraw_pkbs(o, r, w)
Join == \E a \in AccountIds, g \in GroupIds :
    calls < MaxCalls /\ join_group(a, g)

Next == Register \/ Replenish \/ Withdraw \/ Join \/ Unauthenticated

Spec == Init /\ [][Next]_vars

----------------------------------------------------------------------------
\* Calls at the capacity of a list and at the length bound of a withdrawal.
CapBatches == {Batch(n) : n \in {0, 1, MAX_PKBS - 1, MAX_PKBS, MAX_PKBS + 1}}
CapWantedLists == {Alt(k1, k2, n) : k1 \in WantedKeys, k2 \in WantedKeys,
                   n \in {1, WITHDRAW_LIST_MAX_LEN, WITHDRAW_LIST_MAX_LEN + 1}}

CapRegister == \E b \in {Batch(1), Batch(MAX_PKBS), Batch(MAX_PKBS + 1)} :
    calls < MaxCalls /\ register_device(Signed(1), 0, b)
CapReplenish == \E o \in Senders, d \in DeviceIds, b \in CapBatches :
    calls < MaxCalls /\ replenish_pkbs(o, d, b)
CapWithdraw == \E o \in Requesters, r \in RequestIds, w \in CapWantedLists :
    calls < MaxCalls /\ withdraw_pkbs(o, r, w)
CapJoin ==
    calls < MaxCalls /\ join_group(1, "G1")

NextCap == CapRegister \/ CapReplenish \/ CapWithdraw \/ CapJoin \/ Unauthenticated

SpecCap == Init /\ [][NextCap]_vars

----------------------------------------------------------------------------
\* Registering devices of accounts that are members of groups.
RegRegister == \E o \in Senders, d \in DeviceIds, b \in {Batch(0)} \cup Batches :
    calls < MaxCalls /\ register_device(o, d, b)
RegReplenish == \E o \in Senders, d \in DeviceIds :
    calls < MaxCalls /\ replenish_pkbs(o, d, Batch(1))
RegWithdraw == \E o \in Requesters, k \in WantedKeys :
    calls < MaxCalls /\ withdraw_pkbs(o, "R", <<k>>)

NextReg == RegRegister \/ RegReplenish \/ RegWithdraw \/ Join \/ Unauthenticated

SpecReg == Init /\ [][NextReg]_vars

----------------------------------------------------------------------------
\* Registering a device, replenishing it and withdrawing from it in turn: one
\* call more than in the other specifications, with few inputs.
E2EWanted == {<<k>> : k \in WantedKeys}

E2ERegister == \E o \in Senders, d \in DeviceIds :
    calls < MaxCalls + 1 /\ register_device(o, d, Batch(0))
E2EReplenish == \E o \in Senders, b \in {Batch(1), Batch(2)} :
    calls < MaxCalls + 1 /\ replenish_pkbs(o, 0, b)
E2EWithdraw == \E o \in Senders, r \in RequestIds, w \in E2EWanted :
    calls < MaxCalls + 1 /\ withdraw_pkbs(o, r, w)
E2EJoin ==
    calls < MaxCalls + 1 /\ join_group(1, "G1")
E2EUnauthenticated ==
    calls < MaxCalls + 1 /\ withdraw_pkbs(Unsigned, "R", <<<<1, 0>>>>)

NextE2E == E2ERegister \/ E2EReplenish \/ E2EWithdraw \/ E2EJoin \/ E2EUnauthenticated

SpecE2E == Init /\ [][NextE2E]_vars

----------------------------------------------------------------------------
\* Notions the properties are stated with.
Min(a, b) == IF a <= b THEN a ELSE b
KeyOf(entry) == <<entry[1], entry[2]>>
\* The number of entries of a withdrawal result that are for key k.
Count(res, k) == Cardinality({i \in 1..Len(res) : KeyOf(res[i]) = k})
\* The number of times key k is listed in a wanted list.
Occ(wanted, k) == Cardinality({i \in 1..Len(wanted) : wanted[i] = k})
\* The bundles of the entries for key k, in the order of the result.
BundlesFor(res, k) ==
    LET es == SelectSeq(res, LAMBDA e : KeyOf(e) = k)
    IN  [i \in 1..Len(es) |-> es[i][3]]
StoredIds(store) == UNION {{store[k][i].id : i \in 1..Len(store[k])} : k \in Keys}
ResultIds(res) == {res[i][3].id : i \in 1..Len(res)}
\* The step is a call of op that returned Ok.
Succeeded(op) == last'.op = op /\ last'.result = "Ok"
\* The step is the call replenish_pkbs(o, d, b), or withdraw_pkbs(o, r, w).
Replenishes(o, d, b) ==
    /\ last'.op = "replenish_pkbs" /\ last'.who = o.who
    /\ last'.device_id = d /\ last'.count = Len(b)
    /\ replenish_pkbs(o, d, b)
Withdraws(o, r, w) ==
    /\ last'.op = "withdraw_pkbs" /\ last'.who = o.who
    /\ last'.request_id = r /\ last'.count = Len(w)
    /\ withdraw_pkbs(o, r, w)
\* The result the latest withdrawal wrote.
Written == responses'[<<last'.who, last'.request_id>>]
----------------------------------------------------------------------------
\* C1 (one-time use): over any sequence of calls every bundle instance that
\* was handed out was handed out by exactly one entry of one withdrawal
\* result and is no longer in the store, and a successful withdrawal shortens
\* the list of every key by exactly the number of its entries for that key
\* (one per successful pop).
OneTimeUse ==
    [][/\ \A id \in DOMAIN delivered' :
            delivered'[id] = 1 /\ id \notin StoredIds(PreKeyBundles')
       /\ Succeeded("withdraw_pkbs") =>
            \A k \in Keys :
                Len(PreKeyBundles'[k]) = Len(PreKeyBundles[k]) - Count(Written.pkbs, k)
      ]_vars

\* Two withdrawals in sequence each returned a bundle of the same key, and
\* the two bundles are different instances.
OneTimeUseWitness ==
    /\ last.op = "withdraw_pkbs" /\ last.result = "Ok"
    /\ \E k \in Keys :
         /\ Count(responses[<<2, "R">>].pkbs, k) = 1
         /\ Count(responses[<<2, "R2">>].pkbs, k) = 1
         /\ BundlesFor(responses[<<2, "R">>].pkbs, k)[1].id
                # BundlesFor(responses[<<2, "R2">>].pkbs, k)[1].id
    /\ Cardinality(DOMAIN delivered) >= 2

\* C2 (capacity invariant): in every reachable state the bundle list of every
\* (account, device) key has at most MAX_PKBS elements.
CapacityInvariant ==
    \A k \in Keys : Len(PreKeyBundles[k]) <= MAX_PKBS

\* A list is full and a call that would have made it longer was just refused.
CapacityInvariantWitness ==
    /\ last.result = "MaxPreKeyBundle"
    /\ last.count >= 1
    /\ Len(PreKeyBundles[<<last.who, last.device_id>>]) = MAX_PKBS

\* C3 (store within capacity): a replenish_pkbs call of a signed sender whose
\* list holds count bundles, with count + len(bundles) <= MAX_PKBS, returns
\* Ok and leaves as the list the old list followed by the given bundles in
\* their order.
StoreAppendsAll ==
    [][\A o \in Senders, d \in DeviceIds, b \in CapBatches \cup Batches :
          LET key == <<o.who, d>>
          IN  (/\ Replenishes(o, d, b)
               /\ Len(PreKeyBundles[key]) + Len(b) <= MAX_PKBS)
              => /\ last'.result = "Ok"
                 /\ Vals(PreKeyBundles'[key]) = Vals(PreKeyBundles[key]) \o b
                 /\ \A i \in 1..Len(PreKeyBundles[key]) :
                        PreKeyBundles'[key][i] = PreKeyBundles[key][i]
      ]_vars

\* A store of one bundle onto a list of MAX_PKBS - 1 succeeded and filled it.
StoreAppendsAllWitness ==
    /\ last.op = "replenish_pkbs" /\ last.result = "Ok"
    /\ last.count = 1
    /\ Len(PreKeyBundles[<<last.who, last.device_id>>]) = MAX_PKBS
    /\ PreKeyBundles[<<last.who, last.device_id>>][MAX_PKBS].id = nextId - 1

\* C4 (capacity rejection): a replenish_pkbs call of a signed sender with
\* count + len(bundles) > MAX_PKBS returns MaxPreKeyBundle and leaves every
\* bundle list as it was; on a list of MAX_PKBS every store of at least one
\* bundle is such a call.
CapacityRejection ==
    [][\A o \in Senders, d \in DeviceIds, b \in CapBatches \cup Batches :
          LET key == <<o.who, d>>
          IN  (/\ Replenishes(o, d, b)
               /\ \/ Len(PreKeyBundles[key]) + Len(b) > MAX_PKBS
                  \/ Len(PreKeyBundles[key]) = MAX_PKBS /\ Len(b) >= 1)
              => /\ last'.result = "MaxPreKeyBundle"
                 /\ PreKeyBundles' = PreKeyBundles
      ]_vars

\* A store of one bundle onto a full list was refused.
CapacityRejectionWitness ==
    /\ last.op = "replenish_pkbs" /\ last.result = "MaxPreKeyBundle"
    /\ last.count = 1
    /\ Len(PreKeyBundles[<<last.who, last.device_id>>]) = MAX_PKBS

\* C5 (length bound rejection): a withdraw_pkbs call of a signed requester
\* with more than WITHDRAW_LIST_MAX_LEN keys returns VeryLargeWithdrawList,
\* pops nothing and writes no response; a call with exactly
\* WITHDRAW_LIST_MAX_LEN keys is not refused.
LengthBoundRejection ==
    [][(last'.op = "withdraw_pkbs" /\ last'.result # "BadOrigin")
       => /\ last'.count > WITHDRAW_LIST_MAX_LEN
             => /\ last'.result = "VeryLargeWithdrawList"
                /\ PreKeyBundles' = PreKeyBundles
                /\ responses' = responses
                /\ delivered' = delivered
          /\ last'.count = WITHDRAW_LIST_MAX_LEN
             => /\ last'.result = "Ok"
                /\ Written.tag = "PreKeyBundles"
      ]_vars

\* A withdrawal of WITHDRAW_LIST_MAX_LEN + 1 keys was refused although a
\* wanted key had bundles to pop.
LengthBoundRejectionWitness ==
    /\ last.op = "withdraw_pkbs" /\ last.result = "VeryLargeWithdrawList"
    /\ last.count = WITHDRAW_LIST_MAX_LEN + 1
    /\ \E k \in WantedKeys : Len(PreKeyBundles[k]) >= 1
    /\ \A q \in DOMAIN responses : responses[q] = NoResponse

\* C6 (partial-success batching): a withdraw_pkbs call of a signed requester
\* within the length bound returns Ok, and its result has an entry for a
\* listed key exactly for the positions of the list at which that key still
\* had a bundle; positions whose key has none add neither an entry nor an
\* error, so the result may be shorter than the list, or empty.
\* Position i of the wanted list finds a bundle: fewer earlier positions
\* name its key than the key's list has bundles.
Yields(wanted, i) ==
    Cardinality({j \in 1..(i - 1) : wanted[j] = wanted[i]}) < Len(PreKeyBundles[wanted[i]])

PartialSuccess ==
    [][\A o \in Requesters, r \in RequestIds, w \in WantedLists :
          Withdraws(o, r, w)
          => /\ last'.result = "Ok"
             /\ Len(Written.pkbs) <= Len(w)
             /\ \A k \in Keys :
                    Count(Written.pkbs, k)
                        = Cardinality({i \in 1..Len(w) : w[i] = k /\ Yields(w, i)})
      ]_vars

\* A withdrawal of two keys returned Ok with one entry only: a wanted key
\* had no bundle.
PartialSuccessWitness ==
    /\ last.op = "withdraw_pkbs" /\ last.result = "Ok"
    /\ last.count = 2
    /\ Len(responses[<<last.who, last.request_id>>].pkbs) = 1
    /\ \E k \in WantedKeys :
         PreKeyBundles[k] = <<>> /\ Count(responses[<<last.who, last.request_id>>].pkbs, k) = 0

\* C7 as claimed: no key appears in the result of one withdraw_pkbs call more
\* than once.
NoKeyTwice ==
    \A q \in DOMAIN responses :
        \A i, j \in 1..Len(responses[q].pkbs) :
            i # j => KeyOf(responses[q].pkbs[i]) # KeyOf(responses[q].pkbs[j])

\* C7 (amended): no bundle instance appears in the result of one
\* withdraw_pkbs call more than once, and a key appears in the result at most
\* as often as it is listed in the input.
NoBundleTwice ==
    [][\A o \in Requesters, r \in RequestIds, w \in WantedLists :
          Withdraws(o, r, w)
          => /\ \A i, j \in 1..Len(Written.pkbs) :
                    i # j => Written.pkbs[i][3].id # Written.pkbs[j][3].id
             /\ \A k \in Keys : Count(Written.pkbs, k) <= Occ(w, k)
      ]_vars

\* The result of one withdrawal has two entries for the same key, with
\* different bundle instances.
NoBundleTwiceWitness ==
    /\ last.op = "withdraw_pkbs" /\ last.result = "Ok"
    /\ LET res == responses[<<last.who, last.request_id>>].pkbs
       IN  /\ Len(res) = 2
           /\ KeyOf(res[1]) = KeyOf(res[2])
           /\ res[1][3].id # res[2][3].id

\* C8 (LIFO order): the bundles a withdrawal returns for a key are the last
\* elements of the key's list, the last one first, and what stays is the
\* rest of the list; every list is in insertion order, so the pops of a key
\* return its bundles most recently stored first.
LifoOrder ==
    [][/\ \A k \in Keys : \A i, j \in 1..Len(PreKeyBundles'[k]) :
            i < j => PreKeyBundles'[k][i].id < PreKeyBundles'[k][j].id
       /\ Succeeded("withdraw_pkbs") =>
            \A k \in Keys :
                LET old == PreKeyBundles[k]
                    got == BundlesFor(Written.pkbs, k)
                IN  /\ Len(got) <= Len(old)
                    /\ \A j \in 1..Len(got) : got[j] = old[Len(old) - j + 1]
                    /\ PreKeyBundles'[k] = SubSeq(old, 1, Len(old) - Len(got))
      ]_vars

\* Three bundles 1, 2, 3 stored by one call were popped from one key by two
\* withdrawals: the first returned 3 then 2, the second 1.
LifoOrderWitness ==
    /\ last.op = "withdraw_pkbs" /\ last.result = "Ok"
    /\ \E k \in Keys, q1, q2 \in DOMAIN responses :
         LET got1 == BundlesFor(responses[q1].pkbs, k)
             got2 == BundlesFor(responses[q2].pkbs, k)
         IN  /\ Vals(got1) = <<3, 2>>
             /\ Vals(got2) = <<1>>
             /\ got1[1].id = got1[2].id + 1
             /\ got1[2].id = got2[1].id + 1
             /\ q2 = <<last.who, last.request_id>>

\* C9 (one response per successful withdrawal): a withdraw_pkbs call of a
\* signed requester that passes the length check returns Ok and writes the
\* response under (requester, request_id) only; the response written holds
\* exactly the bundles the call removed from the store, each under the key it
\* was removed from, also when there are none; whatever was stored under
\* (requester, request_id) before is replaced and every other response stays.
OneResponse ==
    [][(last'.op = "withdraw_pkbs" /\ last'.result # "BadOrigin"
            /\ last'.count <= WITHDRAW_LIST_MAX_LEN)
       => LET q == <<last'.who, last'.request_id>>
              res == responses'[q].pkbs
              removed == StoredIds(PreKeyBundles) \ StoredIds(PreKeyBundles')
          IN  /\ last'.result = "Ok"
              /\ responses'[q].tag = "PreKeyBundles"
              /\ ResultIds(res) = removed
              /\ Len(res) = Cardinality(removed)
              /\ \A i \in 1..Len(res) :
                     \E n \in 1..Len(PreKeyBundles[KeyOf(res[i])]) :
                         PreKeyBundles[KeyOf(res[i])][n] = res[i][3]
              /\ \A p \in DOMAIN responses \ {q} : responses'[p] = responses[p]
      ]_vars

\* A response holding a bundle was replaced by the empty result of a later
\* withdrawal with the same requester and request id.
OneResponseWitness ==
    /\ last.op = "withdraw_pkbs" /\ last.result = "Ok"
    /\ last.who = 2 /\ last.request_id = "R"
    /\ responses[<<2, "R">>] = ResponsePreKeyBundles(<<>>)
    /\ responses[<<2, "R2">>] = NoResponse
    /\ DOMAIN delivered # {}

\* C10 (registration fan-out): after a register_device call that returned Ok
\* the (owner, device) pair is a member-device of every group the owner was a
\* member of when the call was made, and the owner's device list is the list
\* before the call with the device appended, in which the device occurs once.
RegistrationFanOut ==
    [][Succeeded("register_device")
       => LET owner == last'.who
              device == last'.device_id
          IN  /\ \A i \in 1..Len(memberships[owner]) :
                     <<owner, device>> \in memberDevices'[memberships[owner][i]]
              /\ devices'[owner] = Append(devices[owner], device)
              /\ Cardinality({i \in 1..Len(devices'[owner]) : devices'[owner][i] = device}) = 1
      ]_vars

\* An account that is a member of two groups registered a device, which is
\* now a member-device of both groups.
RegistrationFanOutWitness ==
    /\ last.op = "register_device" /\ last.result = "Ok"
    /\ Len(memberships[last.who]) = 2
    /\ \A g \in GroupIds : <<last.who, last.device_id>> \in memberDevices[g]
    /\ Cardinality({i \in 1..Len(devices[last.who]) : devices[last.who][i] = last.device_id}) = 1

\* C11 (registration is all-or-nothing): a register_device call that returns
\* an error, from the capacity check or from append_device, leaves the device
\* lists, the member-devices of every group and every bundle list as they
\* were.
RegistrationAllOrNothing ==
    [][(last'.op = "register_device" /\ last'.result # "Ok")
       => /\ devices' = devices
          /\ memberDevices' = memberDevices
          /\ PreKeyBundles' = PreKeyBundles
          /\ nextId' = nextId
      ]_vars

\* A member of a group tried to register a new device with more bundles than
\* fit: the call was refused and the device is in no list and in no group.
RegistrationAllOrNothingWitness ==
    /\ last.op = "register_device" /\ last.result = "MaxPreKeyBundle"
    /\ last.who \in AccountIds
    /\ Len(memberships[last.who]) >= 1
    /\ \A i \in 1..Len(devices[last.who]) : devices[last.who][i] # last.device_id
    /\ \A g \in GroupIds : <<last.who, last.device_id>> \notin memberDevices[g]
    /\ PreKeyBundles[<<last.who, last.device_id>>] = <<>>

\* C12 (end-to-end scenario): once device (U, 0) was registered with no
\* bundles and replenished with the single bundle x, a withdrawal of
\* [(U, 0)] by a requester Q with request id R leaves [(U, 0, x)] as the
\* response under (Q, R); a second withdrawal of the same keys by Q with
\* another request id R2 leaves the empty result under (Q, R2) and the
\* response under (Q, R) as it was.
\* Device (U, 0) was registered without bundles and then replenished with
\* one bundle: two calls, the second the replenish, one bundle stored ever.
RegisteredAndReplenished(U) ==
    /\ calls = 2 /\ nextId = 2
    /\ last = Call("replenish_pkbs", U, 0, "", 1, "Ok")
    /\ devices[U] = <<0>>
\* After that, Q withdrew [(U, 0)] with request id R.
WithdrewOnce(U, Q, R) ==
    /\ calls = 3 /\ nextId = 2
    /\ last = Call("withdraw_pkbs", Q, 0, R, 1, "Ok")
    /\ devices[U] = <<0>>
    /\ Len(responses[<<Q, R>>].pkbs) = 1
    /\ KeyOf(responses[<<Q, R>>].pkbs[1]) = <<U, 0>>

EndToEnd ==
    [][\A U \in AccountIds, Q \in AccountIds, R \in RequestIds :
          /\ (RegisteredAndReplenished(U) /\ Withdraws(Signed(Q), R, <<<<U, 0>>>>))
             => /\ last'.result = "Ok"
                /\ responses'[<<Q, R>>].tag = "PreKeyBundles"
                /\ Len(responses'[<<Q, R>>].pkbs) = 1
                /\ KeyOf(responses'[<<Q, R>>].pkbs[1]) = <<U, 0>>
                /\ responses'[<<Q, R>>].pkbs[1][3] = PreKeyBundles[<<U, 0>>][1]
                /\ responses'[<<Q, R>>].pkbs[1][3].val = Batch(1)[1]
          /\ \A R2 \in RequestIds \ {R} :
                (WithdrewOnce(U, Q, R) /\ Withdraws(Signed(Q), R2, <<<<U, 0>>>>))
                => /\ last'.result = "Ok"
                   /\ responses'[<<Q, R2>>] = ResponsePreKeyBundles(<<>>)
                   /\ responses'[<<Q, R>>] = responses[<<Q, R>>]
      ]_vars

\* The scenario has run to its end: the first response holds the bundle, the
\* second is the empty result, and the list of (U, 0) is empty.
EndToEndWitness ==
    \E U \in AccountIds : \E Q \in AccountIds \ {U} :
        /\ calls = 4 /\ nextId = 2
        /\ last = Call("withdraw_pkbs", Q, 0, "R2", 1, "Ok")
        /\ devices[U] = <<0>>
        /\ Len(responses[<<Q, "R">>].pkbs) = 1
        /\ KeyOf(responses[<<Q, "R">>].pkbs[1]) = <<U, 0>>
        /\ responses[<<Q, "R">>].pkbs[1][3].val = Batch(1)[1]
        /\ responses[<<Q, "R2">>] = ResponsePreKeyBundles(<<>>)
        /\ PreKeyBundles[<<U, 0>>] = <<>>

\* C13 (authentication precedes core logic): a register_device,
\* replenish_pkbs or withdraw_pkbs call from an origin that is not signed
\* returns BadOrigin and changes no bundle list, device list, group
\* member-device set or response.
AuthenticationFirst ==
    [][(\/ register_device(Unsigned, 0, Batch(1))
        \/ replenish_pkbs(Unsigned, 0, Batch(1))
        \/ withdraw_pkbs(Unsigned, "R", <<<<1, 0>>>>))
       => /\ last'.result = "BadOrigin"
          /\ UNCHANGED <<PreKeyBundles, devices, memberships, memberDevices, responses, nextId, delivered>>
      ]_vars /\
    [][last'.result = "BadOrigin"
       => UNCHANGED <<PreKeyBundles, devices, memberships, memberDevices, responses, nextId, delivered>>
      ]_vars

\* A withdrawal from an origin that is not signed was refused although the
\* wanted key had a bundle to pop.
AuthenticationFirstWitness ==
    /\ last.op = "withdraw_pkbs" /\ last.result = "BadOrigin"
    /\ PreKeyBundles[<<1, 0>>] # <<>>
    /\ \A q \in DOMAIN responses : responses[q] = NoResponse

\* The positions of a wanted list whose pop yields a bundle, in order, and
\* the number of earlier positions that list the same key.
Kept(wanted) == SelectSeq([i \in 1..Len(wanted) |-> i], LAMBDA i : Yields(wanted, i))
Earlier(wanted, i) == Cardinality({j \in 1..(i - 1) : wanted[j] = wanted[i]})

\* C14 (result order): the result of a withdraw_pkbs call has one entry for
\* each position of the input whose pop yielded a bundle, in the order of
\* the input and with nothing in between, and each entry carries the account
\* and device of the key at its position and the bundle popped from that
\* key's list.
ResultOrder ==
    [][\A o \in Requesters, r \in RequestIds, w \in WantedLists :
          Withdraws(o, r, w)
          => LET kept == Kept(w)
                 res == Written.pkbs
             IN  /\ Len(res) = Len(kept)
                 /\ \A j \in 1..Len(kept) :
                        LET k == w[kept[j]]
                            old == PreKeyBundles[k]
                        IN  res[j] = <<k[1], k[2], old[Len(old) - Earlier(w, kept[j])]>>
      ]_vars

\* A withdrawal listed two keys that both yielded a bundle, and the result
\* has their entries in the order of the input.
ResultOrderWitness ==
    /\ last.op = "withdraw_pkbs" /\ last.result = "Ok" /\ last.count = 2
    /\ LET res == responses[<<last.who, last.request_id>>].pkbs
       IN  /\ Len(res) = 2
           /\ KeyOf(res[1]) = <<2, 0>> /\ KeyOf(res[2]) = <<1, 0>>

\* The step is the call register_device(o, d, b).
Registers(o, d, b) ==
    /\ last'.op = "register_device" /\ last'.who = o.who
    /\ last'.device_id = d /\ last'.count = Len(b)
    /\ register_device(o, d, b)
CapInitialBundles == {Batch(1), Batch(MAX_PKBS), Batch(MAX_PKBS + 1)}

\* C15 as stated (a newly registered device starts from an empty list):
\* right after a successful register_device(owner, device, initial_bundles)
\* the bundle list of (owner, device) is exactly initial_bundles.
StartsFromInitialBundles ==
    [][\A b \in CapInitialBundles :
          (Registers(Signed(1), 0, b) /\ last'.result = "Ok")
          => Vals(PreKeyBundles'[<<1, 0>>]) = b
      ]_vars

\* C15 as amended: register_device applies the capacity check of
\* replenishment to the bundles already stored under (owner, device), which
\* replenish_pkbs may have put there before the device was registered: the
\* call is refused with MaxPreKeyBundle exactly when the stored bundles and
\* initial_bundles together exceed MAX_PKBS, and after a successful call the
\* list is the list before the call followed by initial_bundles, hence
\* exactly initial_bundles when the key held none.
RegistrationExtends ==
    [][\A b \in CapInitialBundles :
          Registers(Signed(1), 0, b)
          => LET old == PreKeyBundles[<<1, 0>>]
             IN  /\ last'.result = "MaxPreKeyBundle" <=> Len(old) + Len(b) > MAX_PKBS
                 /\ last'.result = "Ok"
                    => /\ SubSeq(PreKeyBundles'[<<1, 0>>], 1, Len(old)) = old
                       /\ Vals(PreKeyBundles'[<<1, 0>>]) = Vals(old) \o b
                       /\ old = <<>> => Vals(PreKeyBundles'[<<1, 0>>]) = b
      ]_vars

\* A device was registered with one bundle while its key already held
\* bundles from an earlier replenishment: the list now ends with the
\* registered bundle and is longer than the registered batch.
RegistrationExtendsWitness ==
    /\ last = Call("register_device", 1, 0, "", 1, "Ok")
    /\ devices[1] = <<0>>
    /\ Len(PreKeyBundles[<<1, 0>>]) = MAX_PKBS

\* C16 (frame of store): a replenish_pkbs call by sender S for device d
\* leaves the bundle list of every key other than (S, d), the device lists,
\* the group memberships and member-device sets and the stored responses
\* as they were, whether it succeeds or fails; when it succeeds the list of
\* (S, d) is its old list followed by the new bundles, and when it fails
\* that list is unchanged too.
FrameOfStore ==
    [][\A o \in Origins, d \in DeviceIds, b \in Batches :
          Replenishes(o, d, b)
          => /\ \A k \in Keys \ {<<o.who, d>>} : PreKeyBundles'[k] = PreKeyBundles[k]
             /\ UNCHANGED <<devices, memberships, memberDevices, responses>>
             /\ \A k \in Keys \cap {<<o.who, d>>} :
                    IF last'.result = "Ok"
                    THEN /\ SubSeq(PreKeyBundles'[k], 1, Len(PreKeyBundles[k])) = PreKeyBundles[k]
                         /\ Vals(SubSeq(PreKeyBundles'[k], Len(PreKeyBundles[k]) + 1,
                                         Len(PreKeyBundles'[k]))) = b
                    ELSE PreKeyBundles'[k] = PreKeyBundles[k]
      ]_vars

\* A replenishment of (S, d) succeeded while the other device of S and a
\* device of another account held bundles.
FrameOfStoreWitness ==
    /\ last.op = "replenish_pkbs" /\ last.result = "Ok" /\ last.count >= 1
    /\ last.who \in AccountIds
    /\ \E d \in DeviceIds \ {last.device_id} : PreKeyBundles[<<last.who, d>>] # <<>>
    /\ \E a \in AccountIds \ {last.who} : \E d \in DeviceIds : PreKeyBundles[<<a, d>>] # <<>>

\* C17 (frame of withdrawal): a withdraw_pkbs call never grows a bundle list
\* and leaves the device lists, the group memberships and the member-device
\* sets as they were; when it is carried out, the list of each key shrinks
\* by the smaller of its length and the number of times the key is in the
\* input, what remains is that prefix of the old list, and so the list of a
\* key that is not in the input is unchanged; when it is refused, no list
\* changes.
FrameOfWithdrawal ==
    [][last'.op = "withdraw_pkbs"
       => /\ \A k \in Keys : Len(PreKeyBundles'[k]) <= Len(PreKeyBundles[k])
          /\ UNCHANGED <<devices, memberships, memberDevices>>
      ]_vars /\
    [][\A o \in Requesters \cup {Unsigned}, r \in RequestIds, w \in WantedLists :
          Withdraws(o, r, w)
          => \A k \in Keys :
                LET old == PreKeyBundles[k]
                    taken == IF last'.result = "Ok" THEN Min(Len(old), Occ(w, k)) ELSE 0
                IN  PreKeyBundles'[k] = SubSeq(old, 1, Len(old) - taken)
      ]_vars

\* A withdrawal handed out a bundle of a key that still has bundles left and
\* none of another key that has bundles, while a device was registered.
FrameOfWithdrawalWitness ==
    /\ last.op = "withdraw_pkbs" /\ last.result = "Ok"
    /\ LET res == responses[<<last.who, last.request_id>>].pkbs
       IN  /\ \E k \in Keys : Count(res, k) >= 1 /\ PreKeyBundles[k] # <<>>
           /\ \E k \in Keys : Count(res, k) = 0 /\ PreKeyBundles[k] # <<>>
    /\ \E a \in AccountIds : devices[a] # <<>>

\* C18 (conservation of bundles): after any sequence of calls, for every
\* key, the number of bundles accepted for it by successful register_device
\* and replenish_pkbs calls is the length of its list plus the number of
\* entries that successful withdraw_pkbs calls delivered for it.
Conservation ==
    \A k \in Keys : accepted[k] = Len(PreKeyBundles[k]) + handed[k]

\* A key took bundles from a registration and from a replenishment, some of
\* them were delivered and some are still stored.
ConservationWitness ==
    \E k \in Keys :
        /\ accepted[k] >= 3 /\ handed[k] >= 1 /\ PreKeyBundles[k] # <<>>
        /\ \E i \in 1..Len(devices[k[1]]) : devices[k[1]][i] = k[2]
        /\ last.op = "withdraw_pkbs"

\* Device device_id is in the device list of account user_id.
Registered(user_id, device_id) ==
    \E i \in 1..Len(devices[user_id]) : devices[user_id][i] = device_id

\* C19 (replenishment has no registration precondition): a replenish_pkbs
\* call fails only with BadOrigin, when the origin is not signed, or with
\* MaxPreKeyBundle, when the stored and the new bundles exceed MAX_PKBS; it
\* succeeds in every other case, whether or not the device is registered
\* for the sender, and then the bundles are at the end of the list of
\* (sender, device). A signed caller who then withdraws a single key gets
\* the last bundle of its list, whether or not the device is registered.
NoRegistrationPrecondition ==
    [][\A o \in Origins, d \in DeviceIds, b \in CapBatches :
          Replenishes(o, d, b)
          => /\ last'.result = (IF ~o.signed THEN "BadOrigin"
                                ELSE IF Len(PreKeyBundles[<<o.who, d>>]) + Len(b) > MAX_PKBS
                                THEN "MaxPreKeyBundle"
                                ELSE "Ok")
             /\ last'.result = "Ok"
                => Vals(PreKeyBundles'[<<o.who, d>>]) = Vals(PreKeyBundles[<<o.who, d>>]) \o b
      ]_vars /\
    [][\A o \in Requesters, r \in RequestIds, k \in WantedKeys :
          (Withdraws(o, r, <<k>>) /\ PreKeyBundles[k] # <<>>)
          => /\ last'.result = "Ok"
             /\ Written.pkbs = <<<<k[1], k[2], PreKeyBundles[k][Len(PreKeyBundles[k])]>>>>
      ]_vars

\* A bundle of a device that is not registered for its account, stored by a
\* replenishment, was handed to a caller of another account.
NoRegistrationPreconditionWitness ==
    /\ last.op = "withdraw_pkbs" /\ last.result = "Ok"
    /\ LET res == responses[<<last.who, last.request_id>>].pkbs
       IN  /\ Len(res) = 1
           /\ res[1][1] # last.who
           /\ ~Registered(res[1][1], res[1][2])
           /\ accepted[KeyOf(res[1])] >= 1

====
